---- MODULE Spec2Model ----
(***************************************************************************)
(* A model of src/main.rs: parse (bytes -> Vec<OpCode>), run_file,         *)
(* Interpreter::execute_all and the BfArray operations it dispatches to.   *)
(*                                                                         *)
(* Indices are zero-based as in the Rust source: the instruction at        *)
(* `pointer` is ops[pointer + 1] of the TLA+ sequence, and the tape is a   *)
(* sequence raw, cell i being raw[i + 1].                                   *)
(*                                                                         *)
(* Not modelled: the BF_VISUALIZER_TIME tracing (write_array + sleep,      *)
(* lines 192, 221-224; the model runs with wait = 0), I/O errors of the    *)
(* writer (line 111-112) and of stdin (line 119).                          *)
(***************************************************************************)
EXTENDS Integers, Sequences, FiniteSets, TLC

VARIABLES
    src,         \* the bytes handed to parse
    read,        \* number of bytes of src the `for byte in buf` loop has taken
    open,        \* parse: let mut open
    ops,         \* parse: let mut ops; afterwards Interpreter.ops
    result,      \* what parse returned: "none" while it runs, "Ok", or the Err string
    pc,          \* "parse", "parsed", "run", "halt", "exit", "panic"
    inner,       \* Interpreter.inner : BfArray = [raw, pointer]
    jump_stack,  \* Interpreter.jump_stack
    pointer,     \* Interpreter.pointer (the instruction pointer)
    stdin,       \* bytes not yet read from standard input
    writer,      \* bytes written to the writer so far
    stderr       \* diagnostics: eprintln! lines and panic messages

vars == <<src, read, open, ops, result, pc, inner, jump_stack, pointer,
          stdin, writer, stderr>>

(***************************************************************************)
(* Bounds of the model.                                                    *)
(***************************************************************************)
\* Longest source enumerated exhaustively.
MaxSrcLen == 4
\* Longest standard input.
MaxInput == 1
\* Most bytes a run writes: Output is not taken once the writer holds this
\* many (a loop around an Output would otherwise write without end).
MaxOutput == 2
\* Number of tape cells of the runs of Spec: it stands in for ARRAY_SIZE
\* there, scaled down so that the end of the tape is within reach of the
\* enumerated programs.  Nothing in the model depends on the size of the
\* tape other than through Len(raw).
TapeCells == 3
\* Longest source enumerated exhaustively in SpecFull, the specification
\* that runs on a tape of the full ARRAY_SIZE, and in FairSpec, the one
\* the liveness properties are checked under.
MaxSrcLenShort == 2

\* const ARRAY_SIZE: usize = u16::max_value() as usize (line 9).
ARRAY_SIZE == 65535

\* usize::MAX, the point where checked_add returns None.  2^64 - 1 on the
\* 64-bit targets; the model takes the largest integer TLC represents.  No
\* program that fits in memory moves either pointer that far (every
\* instruction but > and < reads the tape).
USIZE_MAX == 2147483647

\* Option::None for an Option<usize>.
None == -1

\* The bytes a source is drawn from: the eight commands > < + - . , [ ]
\* and one byte that is none of them (a space).
SrcBytes == {62, 60, 43, 45, 46, 44, 91, 93, 32}

\* The bytes standard input is drawn from.
InputBytes == {0, 1}

BoundedSeq(S, n) == UNION {[1..k -> S] : k \in 0..n}

(***************************************************************************)
(* Longer sources, added to the exhaustive ones:                           *)
(*   ++[>+<-]>.     the copy loop                                          *)
(*   +[-[-]++]      inner loop skipped on the first pass, entered later    *)
(*   [[+]-[]].      nested loops skipped as a whole                        *)
(*   -[-]           255 iterations (cell wrap)                             *)
(*   +[-]           the clear loop                                         *)
(*   ++[[-]]        a backward jump with two entries on the jump stack     *)
(***************************************************************************)
Scenarios ==
    { <<43, 43, 91, 62, 43, 60, 45, 93, 62, 46>>,
      <<43, 91, 45, 91, 45, 93, 43, 43, 93>>,
      <<91, 91, 43, 93, 45, 91, 93, 93, 46>>,
      <<45, 91, 45, 93>>,
      <<43, 91, 45, 93>>,
      <<43, 43, 91, 91, 45, 93, 93>> }

Sources == BoundedSeq(SrcBytes, MaxSrcLen) \cup Scenarios

SourcesShort == BoundedSeq(SrcBytes, MaxSrcLenShort) \cup Scenarios

(***************************************************************************)
(* Pure helpers.                                                           *)
(***************************************************************************)
\* OpOf with the arms of '.' and ',' exchanged.
OpOf_SwappedIO(byte) ==
    CASE byte = 62 -> "MoveForward"
      [] byte = 60 -> "MoveBack"
      [] byte = 46 -> "Input"
      [] byte = 44 -> "Output"
      [] byte = 43 -> "Increment"
      [] byte = 45 -> "Decrement"
      [] byte = 91 -> "JmpStart"
      [] byte = 93 -> "JmpEnd"
      [] OTHER -> "skip"

\* The match of parse (lines 279-299) as far as the choice of the opcode
\* goes; "skip" is the `_ => continue` arm.
OpOf(byte) ==
    CASE byte = 62 -> "MoveForward"
      [] byte = 60 -> "MoveBack"
      [] byte = 46 -> "Output"
      [] byte = 44 -> "Input"
      [] byte = 43 -> "Increment"
      [] byte = 45 -> "Decrement"
      [] byte = 91 -> "JmpStart"
      [] byte = 93 -> "JmpEnd"
      [] OTHER -> "skip"

\* UnmatchedClose with the test left out.
UnmatchedClose_Never(o) == FALSE

\* `if open == 0` on a ']' (line 291).
UnmatchedClose(o) == o = 0

\* ParseResult with the test of the counter left out.
ParseResult_AlwaysOk(o) == "Ok"

\* The value parse returns after the loop (lines 303-307).
ParseResult(o) == IF o # 0 THEN "Unmatched '['" ELSE "Ok"

\* checked_sub as usize::saturating_sub.
checked_sub_Saturating(x) == IF x - 1 < 0 THEN 0 ELSE x - 1

\* usize::checked_add(x, 1) and usize::checked_sub(x, 1).
checked_add(x) == IF x + 1 > USIZE_MAX THEN None ELSE x + 1
checked_sub(x) == IF x - 1 < 0 THEN None ELSE x - 1

\* u8::wrapping_add(v, 1) and u8::wrapping_sub(v, 1).
wrapping_add(v) == (v + 1) % 256
wrapping_sub(v) == (v + 256 - 1) % 256

\* self.ops.get(p): the opcode, or None past the end.
Get(o, p) == IF p < Len(o) THEN o[p + 1] ELSE "None"

\* self.raw[self.pointer] is inside the Vec.
InBounds(a) == a.pointer < Len(a.raw)

\* BfArray::value, where it does not panic.
value(a) == a.raw[a.pointer + 1]

\* BfArray::set_value, where it does not panic.
set_value(a, v) == [a EXCEPT !.raw[a.pointer + 1] = v]

\* Pop that leaves the entry on the stack.
Pop_Keep(s) == s

\* Last that takes the bottom of the stack.
Last_Head(s) == s[1]

\* Vec::last and Vec::pop on a non-empty jump stack (lines 206, 218).
Last(s) == s[Len(s)]
Pop(s) == SubSeq(s, 1, Len(s) - 1)

\* Push of the index of the JmpStart itself.
Push_Self(s, p) == Append(s, p)

\* self.jump_stack.push(self.pointer + 1) (line 215).
Push(s, p) == Append(s, p + 1)

\* BfArray::new without the resize: the Vec keeps the length 0 that
\* Vec::with_capacity gives it.
BfArrayNew_NoResize(n) == [raw |-> <<>>, pointer |-> 0]

\* BfArray::new, for a tape of n cells (n is ARRAY_SIZE in the source).
BfArrayNew(n) == [raw |-> [i \in 1..n |-> 0], pointer |-> 0]

\* jump_from with the test of the cell inverted.
jump_from_Inverted(a, from) ==
    LET nonzero == a.raw[a.pointer + 1] = 0 IN
    CASE from = "Start" /\ ~nonzero -> "JumpForward"
      [] from = "End" /\ nonzero -> "JumpBack"
      [] OTHER -> "None"

\* jump_from that jumps back from every JmpEnd.
jump_from_AlwaysBack(a, from) ==
    LET nonzero == a.raw[a.pointer + 1] # 0 IN
    CASE from = "Start" /\ ~nonzero -> "JumpForward"
      [] from = "End" -> "JumpBack"
      [] OTHER -> "None"

\* BfArray::jump_from, where value() does not panic.
jump_from(a, from) ==
    LET nonzero == value(a) # 0 IN
    CASE from = "Start" /\ ~nonzero -> "JumpForward"
      [] from = "End" /\ nonzero -> "JumpBack"
      [] OTHER -> "None"

\* jmp_loop that stops at the first JmpEnd, whatever the depth.
RECURSIVE jmp_loop_FirstClose(_, _, _)
jmp_loop_FirstClose(o, p, depth) ==
    LET q == checked_add(p) IN
    IF q = None THEN [panic |-> "Iter pointer overflow", pointer |-> p]
    ELSE IF q >= Len(o) THEN [panic |-> "index out of bounds", pointer |-> q]
    ELSE IF o[q + 1] = "JmpEnd" THEN [panic |-> "", pointer |-> q + 1]
    ELSE jmp_loop_FirstClose(o, q, depth)

(***************************************************************************)
(* Interpreter::jmp_forward.  One call of jmp_loop is one iteration of the *)
(* `loop`; p is self.pointer on entry of the iteration and depth is the    *)
(* local jmp_stack.  The result is the panic message ("" if none) and the  *)
(* value of self.pointer when the function returns or panics.              *)
(***************************************************************************)
RECURSIVE jmp_loop(_, _, _)
jmp_loop(o, p, depth) ==
    LET q == checked_add(p) IN
    IF q = None THEN [panic |-> "Iter pointer overflow", pointer |-> p]
    ELSE IF q >= Len(o) THEN [panic |-> "index out of bounds", pointer |-> q]
    ELSE IF o[q + 1] = "JmpStart" THEN jmp_loop(o, q, depth + 1)
    ELSE IF o[q + 1] = "JmpEnd" THEN
        IF depth = 0
        THEN IF checked_add(q) = None
             THEN [panic |-> "Iter pointer overflow", pointer |-> q]
             ELSE [panic |-> "", pointer |-> checked_add(q)]
        ELSE jmp_loop(o, q, depth - 1)
    ELSE jmp_loop(o, q, depth)

\* jmp_forward whose scan reads the JmpStart it starts from.
jmp_forward_FromStart(o, p) == jmp_loop(o, p - 1, 0)

jmp_forward(o, p) == jmp_loop(o, p, 0)

(***************************************************************************)
(* Initial state: a source and a standard input; nothing parsed yet and no *)
(* interpreter built (no tape allocated, the other fields at the values    *)
(* Interpreter::new will give them).                                       *)
(* Init is the start of Spec, InitFull that of SpecFull (fewer sources,    *)
(* empty input), InitFair that of FairSpec (fewer sources).                *)
(***************************************************************************)
NoTape == [raw |-> <<>>, pointer |-> 0]

InitWith(sources, inputs) ==
    /\ src \in sources
    /\ stdin \in inputs
    /\ read = 0
    /\ open = 0
    /\ ops = <<>>
    /\ result = "none"
    /\ pc = "parse"
    /\ inner = NoTape
    /\ jump_stack = <<>>
    /\ pointer = 0
    /\ writer = <<>>
    /\ stderr = <<>>

Init == InitWith(Sources, BoundedSeq(InputBytes, MaxInput))

InitFull == InitWith(SourcesShort, {<<>>})

InitFair == InitWith(SourcesShort, BoundedSeq(InputBytes, MaxInput))

Interp == <<inner, jump_stack, pointer, stdin, writer, stderr>>

(***************************************************************************)
(* parse, one iteration of `for byte in buf` (lines 277-301).              *)
(***************************************************************************)
ParseByte ==
    /\ pc = "parse"
    /\ read < Len(src)
    /\ LET byte == src[read + 1]
           opcode == OpOf(byte)
       IN /\ read' = read + 1
          /\ IF opcode = "JmpEnd" /\ UnmatchedClose(open)
             THEN /\ result' = "Unmatched ']'"
                  /\ pc' = "parsed"
                  /\ UNCHANGED <<open, ops>>
             ELSE /\ open' = CASE opcode = "JmpStart" -> open + 1
                               [] opcode = "JmpEnd" -> open - 1
                               [] OTHER -> open
                  /\ ops' = IF opcode = "skip" THEN ops ELSE Append(ops, opcode)
                  /\ UNCHANGED <<result, pc>>
    /\ UNCHANGED <<src, Interp>>

(***************************************************************************)
(* parse, after the loop (lines 303-307).                                  *)
(***************************************************************************)
ParseEnd ==
    /\ pc = "parse"
    /\ read = Len(src)
    /\ result' = ParseResult(open)
    /\ pc' = "parsed"
    /\ UNCHANGED <<src, read, open, ops, Interp>>

\* run_file that goes on to execute whatever parse has collected, without
\* the unwrap of its result.
run_file_NoUnwrap(n) ==
    /\ pc = "parsed"
    /\ inner' = BfArrayNew(n)
    /\ jump_stack' = <<>>
    /\ pointer' = 0
    /\ pc' = "run"
    /\ UNCHANGED <<src, read, open, ops, result, stdin, writer, stderr>>

(***************************************************************************)
(* run_file (lines 311-313): unwrap the parse result, build the            *)
(* interpreter (Interpreter::new, lines 181-188) and enter execute_all     *)
(* (line 191).  n is the size BfArray::new gives the tape.                  *)
(***************************************************************************)
run_file(n) ==
    /\ pc = "parsed"
    /\ IF result = "Ok"
       THEN /\ inner' = BfArrayNew(n)
            /\ jump_stack' = <<>>
            /\ pointer' = 0
            /\ pc' = "run"
            /\ UNCHANGED stderr
       ELSE /\ pc' = "panic"
            /\ stderr' = Append(stderr, result)
            /\ UNCHANGED <<inner, jump_stack, pointer>>
    /\ UNCHANGED <<src, read, open, ops, result, stdin, writer>>

RunFile == run_file(TapeCells)

RunFileFull == run_file(ARRAY_SIZE)

Parsing == <<src, read, open, ops, result>>

\* The opcode execute_all is about to perform.
CurOp == Get(ops, pointer)

\* A tape access outside the Vec: the index panic of value / set_value.
IndexPanic ==
    /\ pc' = "panic"
    /\ stderr' = Append(stderr, "index out of bounds")
    /\ UNCHANGED <<inner, jump_stack, pointer, stdin, writer>>

\* Interpreter::increment_pointer after an Action::None (line 228).
IncrementPointer ==
    IF checked_add(pointer) = None
    THEN /\ pc' = "panic"
         /\ stderr' = Append(stderr, "Iter pointer overflow")
         /\ UNCHANGED pointer
    ELSE /\ pointer' = checked_add(pointer)
         /\ UNCHANGED <<pc, stderr>>

(***************************************************************************)
(* execute_all: `while let Some(op) = self.ops.get(self.pointer)` fails.   *)
(***************************************************************************)
Halt ==
    /\ pc = "run"
    /\ CurOp = "None"
    /\ pc' = "halt"
    /\ UNCHANGED <<Parsing, Interp>>

(***************************************************************************)
(* One iteration of the loop of execute_all for MoveForward / MoveBack:    *)
(* BfArray::move_pointer (lines 152-169), then lines 196-200 and 228.      *)
(***************************************************************************)
Move(op, moved) ==
    /\ pc = "run"
    /\ CurOp = op
    /\ IF moved = None
       THEN /\ pc' = "exit"
            /\ stderr' = Append(stderr, "Pointer access violation")
            /\ UNCHANGED <<inner, pointer>>
       ELSE /\ inner' = [inner EXCEPT !.pointer = moved]
            /\ IncrementPointer
    /\ UNCHANGED <<Parsing, jump_stack, stdin, writer>>

MoveForward == Move("MoveForward", checked_add(inner.pointer))

MoveBack == Move("MoveBack", checked_sub(inner.pointer))

(***************************************************************************)
(* Increment / Decrement: BfArray::modify_value (lines 138-150).           *)
(***************************************************************************)
Modify(op, v) ==
    /\ pc = "run"
    /\ CurOp = op
    /\ IF InBounds(inner)
       THEN /\ inner' = set_value(inner, v)
            /\ IncrementPointer
            /\ UNCHANGED <<jump_stack, stdin, writer>>
       ELSE IndexPanic
    /\ UNCHANGED Parsing

Increment == Modify("Increment", wrapping_add(value(inner)))

Decrement == Modify("Decrement", wrapping_sub(value(inner)))

(***************************************************************************)
(* Output: BfArray::output (lines 110-114).                                *)
(***************************************************************************)
Output ==
    /\ pc = "run"
    /\ CurOp = "Output"
    /\ Len(writer) < MaxOutput
    /\ IF InBounds(inner)
       THEN /\ writer' = Append(writer, value(inner))
            /\ IncrementPointer
            /\ UNCHANGED <<inner, jump_stack, stdin>>
       ELSE IndexPanic
    /\ UNCHANGED Parsing

(***************************************************************************)
(* Input: BfArray::input (lines 116-127).  The byte is taken from stdin    *)
(* before set_value indexes the tape.                                      *)
(***************************************************************************)
Input ==
    /\ pc = "run"
    /\ CurOp = "Input"
    /\ LET input == IF stdin = <<>> THEN 0 ELSE Head(stdin)
           rest == IF stdin = <<>> THEN stdin ELSE Tail(stdin)
       IN IF InBounds(inner)
          THEN /\ stdin' = rest
               /\ inner' = set_value(inner, input)
               /\ IncrementPointer
               /\ UNCHANGED <<jump_stack, writer>>
          ELSE /\ stdin' = rest
               /\ pc' = "panic"
               /\ stderr' = Append(stderr, "index out of bounds")
               /\ UNCHANGED <<inner, jump_stack, pointer, writer>>
    /\ UNCHANGED Parsing

\* JmpStart that pushes its return target on the forward jump too.
JmpStart_PushOnSkip ==
    /\ pc = "run"
    /\ CurOp = "JmpStart"
    /\ IF ~InBounds(inner) THEN IndexPanic
       ELSE IF jump_from(inner, "Start") = "JumpForward"
       THEN LET r == jmp_forward(ops, pointer) IN
            /\ pointer' = r.pointer
            /\ jump_stack' = Push(jump_stack, pointer)
            /\ IF r.panic = ""
               THEN UNCHANGED <<pc, stderr>>
               ELSE /\ pc' = "panic"
                    /\ stderr' = Append(stderr, r.panic)
            /\ UNCHANGED <<inner, stdin, writer>>
       ELSE /\ jump_stack' = Push(jump_stack, pointer)
            /\ IncrementPointer
            /\ UNCHANGED <<inner, stdin, writer>>
    /\ UNCHANGED Parsing

(***************************************************************************)
(* JmpStart: jump_from(Start) (lines 129-136); on JumpForward lines        *)
(* 201-204 (jmp_forward), else lines 213-216 and 228.                      *)
(***************************************************************************)
JmpStart ==
    /\ pc = "run"
    /\ CurOp = "JmpStart"
    /\ IF ~InBounds(inner) THEN IndexPanic
       ELSE IF jump_from(inner, "Start") = "JumpForward"
       THEN LET r == jmp_forward(ops, pointer) IN
            /\ pointer' = r.pointer
            /\ IF r.panic = ""
               THEN UNCHANGED <<pc, stderr>>
               ELSE /\ pc' = "panic"
                    /\ stderr' = Append(stderr, r.panic)
            /\ UNCHANGED <<inner, jump_stack, stdin, writer>>
       ELSE /\ jump_stack' = Push(jump_stack, pointer)
            /\ IncrementPointer
            /\ UNCHANGED <<inner, stdin, writer>>
    /\ UNCHANGED Parsing

(***************************************************************************)
(* JmpEnd: jump_from(End); on JumpBack lines 205-208, else lines 217-219   *)
(* and 228.  last() and pop() of an empty Vec give None, and unwrap        *)
(* panics.                                                                 *)
(***************************************************************************)
JmpEnd ==
    /\ pc = "run"
    /\ CurOp = "JmpEnd"
    /\ IF ~InBounds(inner) THEN IndexPanic
       ELSE IF jump_stack = <<>>
       THEN /\ pc' = "panic"
            /\ stderr' = Append(stderr, "unwrap on None")
            /\ UNCHANGED <<inner, jump_stack, pointer, stdin, writer>>
       ELSE IF jump_from(inner, "End") = "JumpBack"
       THEN /\ pointer' = Last(jump_stack)
            /\ UNCHANGED <<pc, stderr, inner, jump_stack, stdin, writer>>
       ELSE /\ jump_stack' = Pop(jump_stack)
            /\ IncrementPointer
            /\ UNCHANGED <<inner, stdin, writer>>
    /\ UNCHANGED Parsing

Next ==
    \/ ParseByte
    \/ ParseEnd
    \/ RunFile
    \/ Halt
    \/ MoveForward
    \/ MoveBack
    \/ Increment
    \/ Decrement
    \/ Output
    \/ Input
    \/ JmpStart
    \/ JmpEnd

Spec == Init /\ [][Next]_vars

\* The program is one thread that takes its next step whenever it has one.
FairSpec == InitFair /\ [][Next]_vars /\ WF_vars(Next)

\* The same program on a tape of ARRAY_SIZE cells.
Steps ==
    \/ Halt
    \/ MoveForward
    \/ MoveBack
    \/ Increment
    \/ Decrement
    \/ Output
    \/ Input
    \/ JmpStart
    \/ JmpEnd

NextFull ==
    \/ ParseByte
    \/ ParseEnd
    \/ RunFileFull
    \/ Steps

SpecFull == InitFull /\ [][NextFull]_vars

TypeOK ==
    /\ src \in Seq(SrcBytes)
    /\ read \in 0..Len(src)
    /\ open \in Nat
    /\ pc \in {"parse", "parsed", "run", "halt", "exit", "panic"}
    /\ result \in {"none", "Ok", "Unmatched ']'", "Unmatched '['"}
    /\ inner.pointer \in Nat
    /\ \A i \in 1..Len(inner.raw) : inner.raw[i] \in 0..255
    /\ pointer \in 0..Len(ops)
    /\ \A i \in 1..Len(writer) : writer[i] \in 0..255
(***************************************************************************)
(* Definitions the properties are stated with.  They are written from the  *)
(* meaning of bracket nesting, not from the code above.                    *)
(***************************************************************************)
\* Number of x among the first k elements of s.
Count(s, x, k) == Cardinality({i \in 1..k : s[i] = x})

\* o and c nest properly in s.
WellNested(s, o, c) ==
    /\ \A k \in 0..Len(s) : Count(s, c, k) <= Count(s, o, k)
    /\ Count(s, c, Len(s)) = Count(s, o, Len(s))

\* Position (from 1) of the first ']' of s that closes nothing; 0 if none.
FirstUnmatchedClose(s) ==
    LET bad == {k \in 1..Len(s) : Count(s, 93, k) > Count(s, 91, k)} IN
    IF bad = {} THEN 0 ELSE CHOOSE k \in bad : \A m \in bad : k <= m

\* The command bytes and the instruction each stands for.
CommandBytes == {62, 60, 43, 45, 46, 44, 91, 93}
Tag ==
    [b \in CommandBytes |->
        CASE b = 62 -> "MoveForward" [] b = 60 -> "MoveBack"
          [] b = 43 -> "Increment"   [] b = 45 -> "Decrement"
          [] b = 46 -> "Output"      [] b = 44 -> "Input"
          [] b = 91 -> "JmpStart"    [] b = 93 -> "JmpEnd"]
IsCommand(b) == b \in CommandBytes
Image(s) ==
    LET cmds == SelectSeq(s, IsCommand) IN [i \in 1..Len(cmds) |-> Tag[cmds[i]]]

\* JmpStart minus JmpEnd among the instructions i .. j (indices from 0).
Balance(o, i, j) ==
    Cardinality({k \in i..j : o[k + 1] = "JmpStart"})
      - Cardinality({k \in i..j : o[k + 1] = "JmpEnd"})

\* Index (from 0) of the JmpEnd that matches the JmpStart at index i.
MatchingEnd(o, i) ==
    CHOOSE j \in (i + 1)..(Len(o) - 1) :
        /\ Balance(o, i, j) = 0
        /\ \A m \in (i + 1)..(j - 1) : Balance(o, i, m) # 0

\* execute_all is about to take the JumpForward arm.
AtForwardJump ==
    /\ pc = "run"
    /\ CurOp = "JmpStart"
    /\ InBounds(inner)
    /\ value(inner) = 0

Started == pc \in {"run", "halt", "exit", "panic"} /\ result = "Ok"
(***************************************************************************)
(* C1: in every state of a run of a parsed program the tape cursor is      *)
(* inside the tape, 0 <= cursor < capacity.                                *)
(* Violated: move_pointer only tests for usize overflow, so MoveForward    *)
(* at the last cell moves the cursor to Len(raw).                          *)
(***************************************************************************)
C1_CursorInRange ==
    Started => (0 <= inner.pointer /\ inner.pointer < Len(inner.raw))

(***************************************************************************)
(* C2: a run of a parsed program ends abnormally only by the fault of a    *)
(* MoveForward / MoveBack; no other step fails (no tape access outside     *)
(* the tape, no peek or pop of an empty jump stack).                       *)
(* Violated: with the cursor at Len(raw) (see C1) the next step that       *)
(* reads or writes the cell panics.                                        *)
(***************************************************************************)
C2_OnlyMoveFaults == result = "Ok" => pc # "panic"

(***************************************************************************)
(* C3: MoveForward with the cursor at capacity - 1 ends the run in the     *)
(* fatal halt, the cursor unchanged.                                       *)
(* Violated: the step moves the cursor to Len(raw) and the run goes on.    *)
(***************************************************************************)
C3_MoveForwardAtEndIsFatal ==
    [][(pc = "run" /\ CurOp = "MoveForward" /\ inner.pointer = Len(inner.raw) - 1)
          => (pc' = "exit" /\ inner' = inner)]_vars

(***************************************************************************)
(* C4: MoveBack with the cursor at 0 ends the run in the fatal halt: the   *)
(* step emits the diagnostic and changes neither the cursor, the tape,     *)
(* the jump stack, the output, the input nor the instruction pointer, and  *)
(* no step follows the fatal halt.                                         *)
(***************************************************************************)
C4_MoveBackAtZeroIsFatal ==
    [][/\ (pc = "run" /\ CurOp = "MoveBack" /\ inner.pointer = 0)
            => /\ pc' = "exit"
               /\ stderr' = Append(stderr, "Pointer access violation")
               /\ UNCHANGED <<inner, jump_stack, writer, stdin, pointer>>
       /\ pc = "exit" => UNCHANGED vars]_vars

\* The run faulted at cell 0 after one byte was written, and the
\* instruction after the faulting one is an Output that was not executed.
C4_Witness ==
    /\ pc = "exit"
    /\ inner.pointer = 0
    /\ Len(writer) = 1
    /\ Get(ops, pointer) = "MoveBack"
    /\ Get(ops, pointer + 1) = "Output"

(***************************************************************************)
(* C5: parse returns Ok exactly when the '[' and ']' of the source nest    *)
(* properly, and the program it returns is properly nested.                *)
(***************************************************************************)
C5_OkIffNested ==
    result # "none" =>
        /\ (result = "Ok") <=> WellNested(src, 91, 93)
        /\ result = "Ok" => WellNested(ops, "JmpStart", "JmpEnd")

\* A source with two nested loops was accepted.
C5_Witness ==
    /\ result = "Ok"
    /\ Count(ops, "JmpStart", Len(ops)) = 2
    /\ Len(ops) >= 4 /\ ops[1] = "JmpStart" /\ ops[2] = "JmpStart"

(***************************************************************************)
(* C6: parse fails with "Unmatched ']'" at the first ']' read while the    *)
(* counter is zero and reads no byte after it; it fails with               *)
(* "Unmatched '['" exactly when it read the whole source without that      *)
(* error and the counter is nonzero at the end.  "]" gives the first       *)
(* error and "[" the second.                                               *)
(***************************************************************************)
C6_ParseErrors ==
    result # "none" =>
        /\ (result = "Unmatched ']'") <=> (FirstUnmatchedClose(src) # 0)
        /\ result = "Unmatched ']'" => read = FirstUnmatchedClose(src)
        /\ (result = "Unmatched '['") <=>
              (FirstUnmatchedClose(src) = 0 /\ read = Len(src) /\ open # 0)
        /\ src = <<93>> => result = "Unmatched ']'"
        /\ src = <<91>> => result = "Unmatched '['"

\* The close error was returned with bytes of the source still unread, and
\* run_file has gone on from it.
C6_Witness ==
    /\ result = "Unmatched ']'"
    /\ read < Len(src)
    /\ pc = "panic"

(***************************************************************************)
(* C7: the program parse returns is the in-order image of the command      *)
(* bytes of the source, every other byte contributing nothing; a source    *)
(* without '[' and ']' always parses, to a program without JmpStart and    *)
(* JmpEnd.                                                                 *)
(***************************************************************************)
C7_ImageOfCommands ==
    /\ result = "Ok" => ops = Image(src)
    /\ (result # "none" /\ \A i \in 1..Len(src) : src[i] \notin {91, 93})
          => /\ result = "Ok"
             /\ \A i \in 1..Len(ops) : ops[i] \notin {"JmpStart", "JmpEnd"}

\* A source with an ignored byte between commands was parsed.
C7_Witness ==
    /\ result = "Ok"
    /\ Len(src) = 4 /\ src[2] = 32 /\ src[1] = 46 /\ src[3] = 44
    /\ Len(ops) = 3

(***************************************************************************)
(* C8: the scan of a forward jump reads only valid indices of the          *)
(* program: it finds a JmpEnd at depth 0 before the end of the program.    *)
(***************************************************************************)
C8_ScanStaysInside ==
    AtForwardJump =>
        /\ jmp_forward(ops, pointer).panic = ""
        /\ jmp_forward(ops, pointer).pointer <= Len(ops)

\* [[]] has run: the outer loop was skipped by a forward jump whose scan
\* went over the inner loop.
C8_Witness ==
    /\ pc = "halt"
    /\ ops = <<"JmpStart", "JmpStart", "JmpEnd", "JmpEnd">>
    /\ pointer = 4

(***************************************************************************)
(* C9: a JmpStart at index i executed on a zero cell leaves the            *)
(* instruction pointer at j + 1, j the index of the JmpEnd that matches    *)
(* it in the nesting of the program.                                       *)
(***************************************************************************)
C9_JumpLandsAfterMatch ==
    [][AtForwardJump => pointer' = MatchingEnd(ops, pointer) + 1]_vars

\* [[+]-[]]. has jumped from index 0 over both inner loops to the Output
\* at index 8.
C9_Witness ==
    /\ pc = "run"
    /\ Len(ops) = 9 /\ ops[1] = "JmpStart" /\ ops[2] = "JmpStart"
    /\ pointer = 8
    /\ CurOp = "Output"

(***************************************************************************)
(* C10: the jump stack is empty when the run starts and in every state     *)
(* where the run has halted normally.                                      *)
(***************************************************************************)
C10_StackEmptyAtEnds ==
    /\ (pc = "run" /\ pointer = 0) => jump_stack = <<>>
    /\ pc = "halt" => jump_stack = <<>>

\* A run that entered a loop (a JmpStart on a nonzero cell) has halted.
C10_Witness ==
    /\ pc = "halt"
    /\ Len(ops) >= 4
    /\ ops[1] = "Increment" /\ ops[2] = "JmpStart"
    /\ ops[Len(ops)] = "JmpEnd"
(***************************************************************************)
(* C11: a source with unmatched brackets is never executed: once parse     *)
(* has returned an error the run only reports it; no byte is written, no   *)
(* input byte is consumed and the tape, the jump stack and the             *)
(* instruction pointer stay as they were, whatever instructions precede    *)
(* the offending bracket.                                                  *)
(***************************************************************************)
C11_NoExecutionOnParseError ==
    [][result' \in {"Unmatched ']'", "Unmatched '['"}
          => /\ pc' \in {"parsed", "panic"}
             /\ pc' = "panic" => stderr' = <<result'>>
             /\ writer' = <<>>
             /\ UNCHANGED <<inner, jump_stack, pointer, stdin>>]_vars

\* The error was reported for a source whose first two instructions, an
\* Output and an Input, precede the unmatched bracket, with input waiting.
C11_Witness ==
    /\ pc = "panic"
    /\ result \in {"Unmatched ']'", "Unmatched '['"}
    /\ Len(ops) >= 2 /\ ops[1] = "Output" /\ ops[2] = "Input"
    /\ stdin # <<>>

(***************************************************************************)
(* C12: Input with the input exhausted sets cell[cursor] to 0, with a      *)
(* byte available it sets cell[cursor] to that byte and consumes exactly   *)
(* that byte; in both cases the run continues with the next instruction,   *)
(* without a fault.                                                        *)
(* Violated: with the cursor at Len(raw) (see C1, C3) set_value panics.    *)
(***************************************************************************)
C12_Input ==
    [][(pc = "run" /\ CurOp = "Input")
          => /\ pc' = "run"
             /\ pointer' = pointer + 1
             /\ inner'.pointer = inner.pointer
             /\ InBounds(inner')
             /\ IF stdin = <<>>
                THEN value(inner') = 0 /\ stdin' = <<>>
                ELSE value(inner') = Head(stdin) /\ stdin' = Tail(stdin)]_vars

\* What holds of Input while the cursor is inside the tape.
InputWithinTape ==
    [][(pc = "run" /\ CurOp = "Input" /\ InBounds(inner))
          => /\ pc' = "run"
             /\ pointer' = pointer + 1
             /\ inner'.pointer = inner.pointer
             /\ IF stdin = <<>>
                THEN value(inner') = 0 /\ stdin' = <<>>
                ELSE value(inner') = Head(stdin) /\ stdin' = Tail(stdin)]_vars

(***************************************************************************)
(* C13: Increment sets cell[cursor] to (cell[cursor] + 1) mod 256 and      *)
(* Decrement to (cell[cursor] - 1) mod 256, for every value 0..255, and    *)
(* neither ends the run.                                                   *)
(* Violated: with the cursor at Len(raw) (see C1, C3) value panics.        *)
(***************************************************************************)
C13_WrapAround ==
    [][(pc = "run" /\ CurOp \in {"Increment", "Decrement"})
          => /\ pc' = "run"
             /\ InBounds(inner)
             /\ inner'.pointer = inner.pointer
             /\ value(inner') =
                   IF CurOp = "Increment"
                   THEN IF value(inner) = 255 THEN 0 ELSE value(inner) + 1
                   ELSE IF value(inner) = 0 THEN 255 ELSE value(inner) - 1]_vars

\* What holds of Increment and Decrement while the cursor is inside the tape.
ModifyWithinTape ==
    [][(pc = "run" /\ CurOp \in {"Increment", "Decrement"} /\ InBounds(inner))
          => /\ pc' = "run"
             /\ inner'.pointer = inner.pointer
             /\ value(inner') =
                   IF CurOp = "Increment"
                   THEN IF value(inner) = 255 THEN 0 ELSE value(inner) + 1
                   ELSE IF value(inner) = 0 THEN 255 ELSE value(inner) - 1]_vars
(***************************************************************************)
(* C14: the run of ++[>+<-]>. with empty input halts normally, having      *)
(* written the single byte 2, with the cursor at cell 1, cell 0 holding 0  *)
(* and cell 1 holding 2.                                                   *)
(***************************************************************************)
CopyLoop == <<43, 43, 91, 62, 43, 60, 45, 93, 62, 46>>

C14_CopyLoop ==
    (src = CopyLoop /\ stdin = <<>> /\ pc = "parse")
        ~> /\ pc = "halt"
           /\ writer = <<2>>
           /\ inner.pointer = 1
           /\ inner.raw[1] = 0
           /\ inner.raw[2] = 2
           /\ stdin = <<>>

\* The copy loop has halted.
C14_Witness == src = CopyLoop /\ stdin = <<>> /\ pc = "halt" /\ pointer = 10

(***************************************************************************)
(* C15: the run of +[-] eventually halts normally, and then cell 0 is 0    *)
(* and the jump stack is empty.                                            *)
(***************************************************************************)
ClearLoop == <<43, 91, 45, 93>>

C15_ClearLoopHalts ==
    (src = ClearLoop /\ pc = "parse")
        ~> (pc = "halt" /\ inner.raw[1] = 0 /\ jump_stack = <<>>)

\* +[-] has halted after its loop body ran.
C15_Witness ==
    /\ src = ClearLoop
    /\ pc = "halt"
    /\ pointer = 4
    /\ inner.raw[1] = 0
    /\ stderr = <<>>
(***************************************************************************)
(* C16, as claimed: a freshly constructed tape has exactly 65536 cells,    *)
(* all 0, and its cursor is 0.                                             *)
(* Violated: ARRAY_SIZE is u16::max_value() = 65535.                       *)
(***************************************************************************)
\* The interpreter has just been built: no instruction has run.
Fresh == pc = "run" /\ pointer = 0

C16_FreshTape65536 ==
    Fresh => inner = [raw |-> [i \in 1..65536 |-> 0], pointer |-> 0]

(***************************************************************************)
(* C16, amended: a freshly constructed tape has exactly 65535 cells, all   *)
(* 0, and its cursor is 0.                                                 *)
(***************************************************************************)
C16_FreshTape65535 ==
    Fresh => inner = [raw |-> [i \in 1..65535 |-> 0], pointer |-> 0]

\* An interpreter was built for a program that is about to start.
C16_Witness == Fresh /\ Len(ops) = 2 /\ Len(inner.raw) > TapeCells
(***************************************************************************)
(* C17: a JmpStart at index i on a nonzero cell pushes i + 1 and moves     *)
(* the instruction pointer to i + 1; a JmpEnd on a nonzero cell moves the  *)
(* instruction pointer to the top of the jump stack and leaves the stack   *)
(* as it is; a JmpEnd at index j on a zero cell pops exactly one entry     *)
(* and moves the instruction pointer to j + 1.                             *)
(***************************************************************************)
AtLoopOp(op) == pc = "run" /\ CurOp = op /\ InBounds(inner)

C17_LoopProtocol ==
    [][/\ (AtLoopOp("JmpStart") /\ value(inner) # 0)
            => /\ jump_stack' = jump_stack \o <<pointer + 1>>
               /\ pointer' = pointer + 1
               /\ pc' = "run"
       /\ (AtLoopOp("JmpEnd") /\ value(inner) # 0)
            => /\ jump_stack # <<>>
               /\ pointer' = jump_stack[Len(jump_stack)]
               /\ jump_stack' = jump_stack
               /\ pc' = "run"
       /\ (AtLoopOp("JmpEnd") /\ value(inner) = 0)
            => /\ jump_stack # <<>>
               /\ jump_stack = jump_stack' \o <<jump_stack[Len(jump_stack)]>>
               /\ pointer' = pointer + 1
               /\ pc' = "run"]_vars

\* ++[[-]] has jumped back from its inner JmpEnd, with two entries on the
\* jump stack, after both JmpStart pushed on a nonzero cell.
C17_Witness ==
    /\ src = <<43, 43, 91, 91, 45, 93, 93>>
    /\ pc = "run"
    /\ pointer = 4
    /\ jump_stack = <<3, 4>>
    /\ inner.raw[1] = 1

(***************************************************************************)
(* C18: a forward jump (JmpStart on a zero cell) changes the instruction   *)
(* pointer and nothing else: the jump stack, the cursor, the tape, the     *)
(* output, the input and the diagnostics are as before the step.           *)
(***************************************************************************)
C18_ForwardJumpFrame ==
    [][AtForwardJump
          => /\ UNCHANGED <<inner, jump_stack, writer, stdin, stderr, pc>>
             /\ pointer' > pointer]_vars

\* +[-[-]++] has skipped its inner loop from inside the outer one: the
\* entry of the outer loop is still the only one on the stack.
C18_Witness ==
    /\ src = <<43, 91, 45, 91, 45, 93, 43, 43, 93>>
    /\ pc = "run"
    /\ pointer = 6
    /\ jump_stack = <<2>>
    /\ inner.raw[1] = 0

(***************************************************************************)
(* C19: in every state of a run the jump stack mirrors the loops that      *)
(* enclose the instruction pointer: its entries are, from bottom to top,   *)
(* i + 1 for the loops (i, j) with i < pointer <= j, outermost first.      *)
(* Hence at a JmpEnd the stack is not empty and its top is the index       *)
(* after the matching JmpStart.                                            *)
(***************************************************************************)
\* The JmpStart indices of the loops around index p.
Enclosing(o, p) ==
    {i \in 0..(Len(o) - 1) :
        o[i + 1] = "JmpStart" /\ i < p /\ p <= MatchingEnd(o, i)}

\* Their return targets, outermost first.
ExpectedStack(o, p) ==
    LET E == Enclosing(o, p) IN
    [k \in 1..Cardinality(E) |->
        1 + CHOOSE i \in E : Cardinality({m \in E : m < i}) = k - 1]

C19_StackMirrorsNesting ==
    Started =>
        /\ jump_stack = ExpectedStack(ops, pointer)
        /\ (pc = "run" /\ CurOp = "JmpEnd")
              => /\ jump_stack # <<>>
                 /\ MatchingEnd(ops, jump_stack[Len(jump_stack)] - 1) = pointer

\* +[-[-]++] is inside its inner loop, which it skipped on the first pass
\* of the outer loop (the cell is nonzero at the inner JmpStart only on
\* the second pass).
C19_Witness ==
    /\ src = <<43, 91, 45, 91, 45, 93, 43, 43, 93>>
    /\ pc = "run"
    /\ jump_stack = <<2, 4>>
    /\ pointer = 5

(***************************************************************************)
(* C20: a program without JmpStart and JmpEnd always terminates: every     *)
(* step that does not fault moves the instruction pointer on by one, so    *)
(* the run ends in the normal halt after Len(ops) steps or in the fatal    *)
(* halt of a MoveForward / MoveBack before that, and it has halted         *)
(* normally exactly when the instruction pointer is Len(ops).              *)
(* Violated: with the cursor at Len(raw) (see C1, C3) a step that reads    *)
(* or writes the cell panics: the run ends in neither of the two halts.    *)
(***************************************************************************)
BracketFree == \A i \in 1..Len(ops) : ops[i] \notin {"JmpStart", "JmpEnd"}

C20_StraightLine ==
    [][(pc = "run" /\ BracketFree)
          => IF pointer = Len(ops)
             THEN pc' = "halt" /\ pointer' = pointer
             ELSE \/ pc' = "run" /\ pointer' = pointer + 1
                  \/ /\ pc' = "exit"
                     /\ CurOp \in {"MoveForward", "MoveBack"}
                     /\ pointer' = pointer]_vars

\* What holds of such a program: the one other end is the index panic of
\* a step taken with the cursor outside the tape.
StraightLineOrIndexPanic ==
    [][(pc = "run" /\ BracketFree)
          => IF pointer = Len(ops)
             THEN pc' = "halt" /\ pointer' = pointer
             ELSE \/ pc' = "run" /\ pointer' = pointer + 1
                  \/ /\ pc' = "exit"
                     /\ CurOp \in {"MoveForward", "MoveBack"}
                     /\ pointer' = pointer
                  \/ /\ pc' = "panic"
                     /\ ~InBounds(inner)
                     /\ pointer' = pointer]_vars
====
